---- MODULE Spec2Model ----
(***************************************************************************)
(* Model of eventful-wss (src/src/ewss.js): the envelope codec             *)
(* (buildEWSMessage / parseEWSMessage), the EventfulWebSocketServer class  *)
(* and the upgrade dispatcher addEventfulWebSocketHandlers.                *)
(*                                                                         *)
(* JavaScript values are tagged records so that values of different types  *)
(* can be compared.  A JavaScript object is a function from property names *)
(* to values; reading a property the object does not have yields           *)
(* Undefined, as in the language.                                          *)
(***************************************************************************)
EXTENDS Integers, Sequences, FiniteSets, TLC

(***************************************************************************)
(* Bounds of the model.                                                    *)
(***************************************************************************)
MaxSteps == 4
MaxConfig == 2
MaxServers == 2
MaxConns == 2

(***************************************************************************)
(* JavaScript values.                                                      *)
(***************************************************************************)
Null == [null |-> TRUE]
Undefined == [undefined |-> TRUE]
JNum(n) == [t |-> "num", n |-> n]
JStr(s) == [t |-> "str", s |-> s]
JArr(a) == [t |-> "arr", a |-> a]
JObj(o) == [t |-> "obj", o |-> o]
Fn(name) == [fn |-> name]
EmptyObject == [k \in {} |-> Null]

\* ToBoolean for the values the program tests: null and undefined are falsy,
\* functions and objects are truthy.
Truthy(v) == v # Null /\ v # Undefined

(***************************************************************************)
(* JSON text is a sequence of lexical tokens.                              *)
(***************************************************************************)
P(s) == [k |-> "p", s |-> s]
StrTok(s) == [k |-> "s", s |-> s]
NumTok(s) == [k |-> "n", s |-> s]
LitTok(s) == [k |-> "l", s |-> s]
WordTok(s) == [k |-> "w", s |-> s]

Digits == <<"0", "1", "2", "3">>
NumberToString(n) == Digits[n + 1]
StringToNumber(s) == CHOOSE n \in 0..(Len(Digits) - 1) : Digits[n + 1] = s

RECURSIVE Stringify(_)
RECURSIVE StringifyElements(_)
RECURSIVE StringifyMembers(_, _)
\* JSON.stringify of the elements of an array, comma separated.
StringifyElements(a) ==
    IF a = <<>> THEN <<>>
    ELSE IF Len(a) = 1 THEN Stringify(a[1])
    ELSE Stringify(a[1]) \o <<P(",")>> \o StringifyElements(Tail(a))
\* JSON.stringify of the members of an object; a member whose value is
\* undefined is left out.
StringifyMembers(o, first) ==
    IF o = <<>> THEN <<>>
    ELSE IF o[1].v = Undefined THEN StringifyMembers(Tail(o), first)
    ELSE (IF first THEN <<>> ELSE <<P(",")>>)
         \o <<StrTok(o[1].k), P(":")>> \o Stringify(o[1].v)
         \o StringifyMembers(Tail(o), FALSE)
Stringify(v) ==
    CASE v = Null -> <<LitTok("null")>>
      [] v # Null /\ v.t = "num" -> <<NumTok(NumberToString(v.n))>>
      [] v # Null /\ v.t = "str" -> <<StrTok(v.s)>>
      [] v # Null /\ v.t = "arr" -> <<P("[")>> \o StringifyElements(v.a) \o <<P("]")>>
      [] v # Null /\ v.t = "obj" -> <<P("{")>> \o StringifyMembers(v.o, TRUE) \o <<P("}")>>

ParseFail == [ok |-> FALSE, val |-> Null, rest |-> <<>>]
RECURSIVE ParseValue(_)
RECURSIVE ParseElements(_, _)
RECURSIVE ParseMembers(_, _)
\* After "[" or after ",": one element, then "," or "]".
ParseElements(toks, acc) ==
    LET e == ParseValue(toks) IN
    IF ~e.ok \/ e.rest = <<>> THEN ParseFail
    ELSE IF e.rest[1] = P("]")
         THEN [ok |-> TRUE, val |-> JArr(Append(acc, e.val)), rest |-> Tail(e.rest)]
    ELSE IF e.rest[1] = P(",") THEN ParseElements(Tail(e.rest), Append(acc, e.val))
    ELSE ParseFail
\* After "{" or after ",": "key" ":" value, then "," or "}".
ParseMembers(toks, acc) ==
    IF Len(toks) < 2 \/ toks[1].k # "s" \/ toks[2] # P(":") THEN ParseFail
    ELSE LET e == ParseValue(SubSeq(toks, 3, Len(toks)))
             m == [k |-> toks[1].s, v |-> e.val]
         IN IF ~e.ok \/ e.rest = <<>> THEN ParseFail
            ELSE IF e.rest[1] = P("}")
                 THEN [ok |-> TRUE, val |-> JObj(Append(acc, m)), rest |-> Tail(e.rest)]
            ELSE IF e.rest[1] = P(",") THEN ParseMembers(Tail(e.rest), Append(acc, m))
            ELSE ParseFail
ParseValue(toks) ==
    IF toks = <<>> THEN ParseFail
    ELSE LET h == toks[1]
             r == Tail(toks)
         IN CASE h.k = "l" /\ h.s = "null" -> [ok |-> TRUE, val |-> Null, rest |-> r]
              [] h.k = "n" -> [ok |-> TRUE, val |-> JNum(StringToNumber(h.s)), rest |-> r]
              [] h.k = "s" -> [ok |-> TRUE, val |-> JStr(h.s), rest |-> r]
              [] h = P("[") ->
                    IF r # <<>> /\ r[1] = P("]")
                    THEN [ok |-> TRUE, val |-> JArr(<<>>), rest |-> Tail(r)]
                    ELSE ParseElements(r, <<>>)
              [] h = P("{") ->
                    IF r # <<>> /\ r[1] = P("}")
                    THEN [ok |-> TRUE, val |-> JObj(<<>>), rest |-> Tail(r)]
                    ELSE ParseMembers(r, <<>>)
              [] OTHER -> ParseFail

\* A completion of a JavaScript block: it returns a value or throws.
Return(v) == [completion |-> "return", value |-> v]
Throw(e) == [completion |-> "throw", value |-> JStr(e)]

\* JSON.parse: the whole text must be one value, otherwise SyntaxError.
JSONParse(text) ==
    LET r == ParseValue(text) IN
    IF r.ok /\ r.rest = <<>> THEN Return(r.val) ELSE Throw("SyntaxError")

\* obj.name for a parsed JSON value or a plain result object.
RECURSIVE LastMember(_, _)
LastMember(o, name) ==
    IF o = <<>> THEN Undefined
    ELSE IF o[Len(o)].k = name THEN o[Len(o)].v
    ELSE LastMember(SubSeq(o, 1, Len(o) - 1), name)
GetMember(v, name) ==
    IF v = Null \/ v = Undefined THEN Undefined
    ELSE IF "t" \in DOMAIN v
         THEN (IF v.t = "obj" THEN LastMember(v.o, name) ELSE Undefined)
    ELSE IF name \in DOMAIN v THEN v[name]
    ELSE Undefined

\* try { A } finally { B }: an abrupt completion of B (a return) replaces the
\* completion of A, whether A returned or threw.
TryFinally(tryBlock, finallyBlock) ==
    IF finallyBlock.completion = "normal" THEN tryBlock ELSE finallyBlock

buildEWSMessage(event, data) ==
    Stringify(JObj(<<[k |-> "event", v |-> event], [k |-> "data", v |-> data]>>))

\* A variant of parseEWSMessage whose finally block does not return.
parseEWSMessageNoFinally(message) ==
    LET parsed == JSONParse(message)
    IN IF parsed.completion = "throw" THEN parsed
       ELSE Return([ok |-> TRUE, body |-> parsed.value])

parseEWSMessage(message) ==
    LET parsed == JSONParse(message)
        tryBlock == IF parsed.completion = "throw" THEN parsed
                    ELSE Return([ok |-> TRUE, body |-> parsed.value])
        finallyBlock == Return([ok |-> FALSE, body |-> Null])
    IN TryFinally(tryBlock, finallyBlock)

(***************************************************************************)
(* The EventfulWebSocketServer class.  An instance is a property map; the  *)
(* route table ewssRouter maps each path to one instance.                  *)
(***************************************************************************)
Paths == {"/chat", "/news"}
Handlers == {Fn("h1"), Fn("h2")}
EventNames == {"ping", "pong", "toString"}
Authenticators == {Fn("checkPassword")}
Rules == {Null, Fn("notFirst")}
OPEN == "OPEN"
CLOSING == "CLOSING"
CLOSED == "CLOSED"

VARIABLES
    routers,     \* path -> the EventfulWebSocketServer instance registered there
    servers,     \* the WebSocket.Server instances created so far, by creation order
    websockets,  \* the accepted connections, by accept order
    nconf,       \* number of configuration calls made
    steps,       \* number of operations performed
    calls,       \* the application callbacks invoked by the last operation, in order
    sent,        \* the messages handed to websocket.send by the last operation
    last         \* the last operation and its outcome

vars == <<routers, servers, websockets, nconf, steps, calls, sent, last>>

constructor ==
    ("_socket" :> Null) @@ ("_events" :> EmptyObject) @@ ("_authenticator" :> Null)
    @@ ("_onOpenHandler" :> Null) @@ ("_onCloseHandler" :> Null)
    @@ ("_onErrorHandler" :> Null) @@ ("_onMessageHandler" :> Null)

ClassMethods ==
    {"useAuthenticator", "onOpen", "onClose", "onError", "onMessage", "emit",
     "broadcast", "subscribe", "init", "isInitialized", "getWSS"}

\* ewss.name: an own property, else a method of the class, else undefined.
GetProperty(ewss, name) ==
    IF name \in DOMAIN ewss THEN ewss[name]
    ELSE IF name \in ClassMethods THEN Fn(name)
    ELSE Undefined

\* A callback invocation as recorded in calls.
Call(path, slot, fn, args) == [of |-> path, slot |-> slot, fn |-> fn, args |-> args]

\* cond && handler(args): the invocation, if the slot holds a function.
Invoke(path, slot, args) ==
    IF Truthy(routers[path][slot]) THEN <<Call(path, slot, routers[path][slot], args)>>
    ELSE <<>>

\* A variant of isInitialized that never reports an initialized router.
isInitializedNever(ewss) == FALSE

isInitialized(ewss) == ewss["_socket"] # Null
getWSS(ewss) == ewss["_socket"]

\* Every operation counts towards the number of operations explored.
Tick ==
    /\ steps < MaxSteps
    /\ steps' = steps + 1

\* A variant of Setter that keeps a handler that is already installed.
SetterKeepFirst(p, slot, fn, op) ==
    /\ Tick
    /\ nconf < MaxConfig
    /\ routers' = [routers EXCEPT ![p][slot] = IF Truthy(@) THEN @ ELSE fn]
    /\ nconf' = nconf + 1
    /\ calls' = <<>>
    /\ sent' = <<>>
    /\ last' = [op |-> op, path |-> p, fn |-> fn, raised |-> FALSE]
    /\ UNCHANGED <<servers, websockets>>

Setter(p, slot, fn, op) ==
    /\ Tick
    /\ nconf < MaxConfig
    /\ routers' = [routers EXCEPT ![p][slot] = fn]
    /\ nconf' = nconf + 1
    /\ calls' = <<>>
    /\ sent' = <<>>
    /\ last' = [op |-> op, path |-> p, fn |-> fn, raised |-> FALSE]
    /\ UNCHANGED <<servers, websockets>>

useAuthenticator(p, authenticator) == Setter(p, "_authenticator", authenticator, "useAuthenticator")
onOpen(p, handler) == Setter(p, "_onOpenHandler", handler, "onOpen")
onClose(p, handler) == Setter(p, "_onCloseHandler", handler, "onClose")
onError(p, handler) == Setter(p, "_onErrorHandler", handler, "onError")
onMessage(p, handler) == Setter(p, "_onMessageHandler", handler, "onMessage")

\* The property names, among those the model draws from, that the object
\* literal this._events = {} inherits from Object.prototype.
ObjectPrototype == {"toString"}

\* event in this._events: own and inherited properties.
In(event, events) == event \in DOMAIN events \/ event \in ObjectPrototype

\* this._events[event] is an array: subscribe is the only writer of _events
\* and it writes arrays, so the own properties are arrays and the inherited
\* ones are the functions of Object.prototype.
IsList(events, event) == event \in DOMAIN events

\* subscribe's effect on this._events: a list is created unless event is in
\* _events, then handler is pushed onto this._events[event]; push on a value
\* that is not an array raises a TypeError.
SubscribedEvents(events, event, handler) ==
    LET withList == IF In(event, events) THEN events ELSE (event :> <<>>) @@ events
    IN IF IsList(withList, event)
       THEN [raised |-> FALSE,
             events |-> [withList EXCEPT ![event] = Append(@, handler)]]
       ELSE [raised |-> TRUE, events |-> withList]

subscribe(p, event, handler) ==
    LET r == SubscribedEvents(routers[p]["_events"], event, handler) IN
    /\ Tick
    /\ nconf < MaxConfig
    /\ routers' = [routers EXCEPT ![p]["_events"] = r.events]
    /\ nconf' = nconf + 1
    /\ calls' = <<>>
    /\ sent' = <<>>
    /\ last' = [op |-> "subscribe", path |-> p, event |-> event, raised |-> r.raised]
    /\ UNCHANGED <<servers, websockets>>

\* new WebSocket.Server({ noServer: true }) with the one "connection" listener
\* init registers on it; the listener is a closure over the router (its path).
NewServer(p) == [clients |-> {}, connection |-> <<p>>]

\* The router after init(): _socket refers to the server created by this call.
InitRouter(ewss, srvs) == [ewss EXCEPT !["_socket"] = [wss |-> Len(srvs) + 1]]
InitServers(p, srvs) == Append(srvs, NewServer(p))

init(p) ==
    /\ Tick
    /\ Len(servers) < MaxServers
    /\ routers' = [routers EXCEPT ![p] = InitRouter(@, servers)]
    /\ servers' = InitServers(p, servers)
    /\ calls' = <<>>
    /\ sent' = <<>>
    /\ last' = [op |-> "init", path |-> p, raised |-> FALSE]
    /\ UNCHANGED <<websockets, nconf>>

\* A variant of EmitSends that does not look at readyState.
EmitSendsAnyState(wsks, w, event, data) ==
    <<[ws |-> w, message |-> buildEWSMessage(JStr(event), data)]>>

\* websocket.send on behalf of emit: only an open connection is written to.
EmitSends(wsks, w, event, data) ==
    IF wsks[w].readyState = OPEN
    THEN <<[ws |-> w, message |-> buildEWSMessage(JStr(event), data)]>>
    ELSE <<>>

emit(p, w, event, data) ==
    /\ Tick
    /\ w \in DOMAIN websockets
    /\ sent' = EmitSends(websockets, w, event, data)
    /\ calls' = <<>>
    /\ last' = [op |-> "emit", ws |-> w, event |-> event, data |-> data,
                raised |-> FALSE]
    /\ UNCHANGED <<routers, servers, websockets, nconf>>

\* rule(websocket) for the rules the model draws from.
ApplyRule(rule, w) ==
    CASE rule = Fn("notFirst") -> w # 1
      [] OTHER -> TRUE

\* A variant of BroadcastSends that ignores the rule.
RECURSIVE BroadcastSendsNoRule(_, _, _, _, _, _)
BroadcastSendsNoRule(wsks, clients, from, event, data, rule) ==
    IF from > Len(wsks) THEN <<>>
    ELSE (IF from \notin clients THEN <<>> ELSE EmitSends(wsks, from, event, data))
         \o BroadcastSendsNoRule(wsks, clients, from + 1, event, data, rule)

\* A variant of BroadcastSends that walks the connections of every server.
RECURSIVE BroadcastSendsEveryServer(_, _, _, _, _, _)
BroadcastSendsEveryServer(wsks, clients, from, event, data, rule) ==
    IF from > Len(wsks) THEN <<>>
    ELSE (IF Truthy(rule) /\ ~ApplyRule(rule, from) THEN <<>>
          ELSE EmitSends(wsks, from, event, data))
         \o BroadcastSendsEveryServer(wsks, clients, from + 1, event, data, rule)

\* this._socket.clients.forEach(...) over the clients in insertion order.
RECURSIVE BroadcastSends(_, _, _, _, _, _)
BroadcastSends(wsks, clients, from, event, data, rule) ==
    IF from > Len(wsks) THEN <<>>
    ELSE (IF from \notin clients THEN <<>>
          ELSE IF Truthy(rule) /\ ~ApplyRule(rule, from) THEN <<>>
          ELSE EmitSends(wsks, from, event, data))
         \o BroadcastSends(wsks, clients, from + 1, event, data, rule)

\* A variant of broadcast that treats a router without a server as one with
\* no connections.
broadcastNoServerNoOp(p, event, data, rule) ==
    LET socket == routers[p]["_socket"] IN
    /\ Tick
    /\ sent' = IF socket = Null THEN <<>>
               ELSE BroadcastSends(websockets, servers[socket.wss].clients, 1, event, data, rule)
    /\ calls' = <<>>
    /\ last' = [op |-> "broadcast", path |-> p, event |-> event, data |-> data,
                rule |-> rule, raised |-> FALSE]
    /\ UNCHANGED <<routers, servers, websockets, nconf>>

broadcast(p, event, data, rule) ==
    LET socket == routers[p]["_socket"] IN
    /\ Tick
    /\ sent' = IF socket = Null THEN <<>>
               ELSE BroadcastSends(websockets, servers[socket.wss].clients, 1, event, data, rule)
    /\ calls' = <<>>
    /\ last' = [op |-> "broadcast", path |-> p, event |-> event, data |-> data,
                rule |-> rule, raised |-> (socket = Null)]
    /\ UNCHANGED <<routers, servers, websockets, nconf>>

(***************************************************************************)
(* The connection callback registered by init, and the transport events of *)
(* an accepted connection.                                                 *)
(***************************************************************************)
PortStrings == (5001 :> "5001") @@ (5002 :> "5002") @@ (5003 :> "5003") @@ (5004 :> "5004")
\* a + b on strings; a number operand is converted to its decimal string.
Concat(a, b) == a \o b
StringOf(port) == <<PortStrings[port]>>

\* The transport socket of the n-th connection attempt the process sees.
TransportSocket(n) == [remoteAddress |-> "10.0.0.1", remotePort |-> 5000 + n]

\* The websocket object as a callback sees it when it is invoked.
Seen(w, rec) == [id |-> w, remote |-> rec.remote, request |-> rec.request]

\* A variant of ConnectionCallback that passes the request to the open hook.
ConnectionCallbackWithRequest(p, w, rec, request) ==
    LET remote == [address |-> rec.socket.remoteAddress,
                   port |-> rec.socket.remotePort,
                   fullAddress |-> Concat(Concat(<<rec.socket.remoteAddress>>, <<":">>),
                                          StringOf(rec.socket.remotePort))]
        attached == [rec EXCEPT !.remote = remote, !.request = request]
    IN [rec |-> [attached EXCEPT !.on = Append(@, p)],
        calls |-> Invoke(p, "_onOpenHandler", <<Seen(w, attached), request>>)]

\* A variant of ConnectionCallback that calls the open hook first.
ConnectionCallbackOpenFirst(p, w, rec, request) ==
    LET remote == [address |-> rec.socket.remoteAddress,
                   port |-> rec.socket.remotePort,
                   fullAddress |-> Concat(Concat(<<rec.socket.remoteAddress>>, <<":">>),
                                          StringOf(rec.socket.remotePort))]
        attached == [rec EXCEPT !.remote = remote, !.request = request]
    IN [rec |-> [attached EXCEPT !.on = Append(@, p)],
        calls |-> Invoke(p, "_onOpenHandler", <<Seen(w, rec)>>)]

\* The body of the "connection" listener of router p for websocket w.
ConnectionCallback(p, w, rec, request) ==
    LET remote == [address |-> rec.socket.remoteAddress,
                   port |-> rec.socket.remotePort,
                   fullAddress |-> Concat(Concat(<<rec.socket.remoteAddress>>, <<":">>),
                                          StringOf(rec.socket.remotePort))]
        attached == [rec EXCEPT !.remote = remote, !.request = request]
    IN [rec |-> [attached EXCEPT !.on = Append(@, p)],
        calls |-> Invoke(p, "_onOpenHandler", <<Seen(w, attached)>>)]

\* wss.emit("connection", ws, wsReq): every listener runs, in registration order.
RECURSIVE EmitConnection(_, _, _, _)
EmitConnection(listeners, w, rec, request) ==
    IF listeners = <<>> THEN [rec |-> rec, calls |-> <<>>]
    ELSE LET first == ConnectionCallback(listeners[1], w, rec, request)
             rest == EmitConnection(Tail(listeners), w, first.rec, request)
         IN [rec |-> rest.rec, calls |-> first.calls \o rest.calls]

\* The "close" listener of router p: (code, reason) with reason a Buffer.
BufferToString(buffer) == buffer.bytes
\* A variant of CloseListener that tests a hook field that is never assigned.
CloseListenerUnassignedHook(p, w, rec, code, reason) == <<>>

CloseListener(p, w, rec, code, reason) ==
    Invoke(p, "_onCloseHandler", <<Seen(w, rec), code, BufferToString(reason)>>)

ErrorListener(p, w, rec, error) ==
    Invoke(p, "_onErrorHandler", <<Seen(w, rec), error>>)

\* this._events[key] || [] with key converted to a property name: the list
\* of an own property, the empty list for a missing one, and a function that
\* for...of cannot iterate for an inherited one.
PropertyKey(v) == IF v = Undefined THEN "undefined" ELSE IF v = Null THEN "null" ELSE v.s
Subscriptions(events, key) ==
    IF PropertyKey(key) \in DOMAIN events
    THEN [iterable |-> TRUE, list |-> events[PropertyKey(key)]]
    ELSE [iterable |-> PropertyKey(key) \notin ObjectPrototype, list |-> <<>>]

\* A variant of MessageListener that calls the message hook after the
\* subscribers, inside the branch of a successful decode.
MessageListenerHookAfterDecode(p, w, rec, message, isBinary) ==
    LET hook == Invoke(p, "_onMessageHandler", <<Seen(w, rec), message, isBinary>>)
        parsed == parseEWSMessage(message)
        json == parsed.value
        subs == Subscriptions(routers[p]["_events"], GetMember(json, "event"))
    IN IF parsed.completion = "throw"
       THEN [calls |-> <<>>, json |-> Undefined, raised |-> TRUE]
       ELSE [calls |-> (IF json.ok
                        THEN [i \in 1..Len(subs.list) |->
                                Call(p, "_events", subs.list[i],
                                     <<Seen(w, rec), GetMember(json, "data"), isBinary>>)]
                             \o hook
                        ELSE <<>>),
             json |-> json, raised |-> json.ok /\ ~subs.iterable]

\* The "message" listener of router p.  The result is the callbacks invoked,
\* the value of the local json, and whether the listener threw.
MessageListener(p, w, rec, message, isBinary) ==
    LET hook == Invoke(p, "_onMessageHandler", <<Seen(w, rec), message, isBinary>>)
        parsed == parseEWSMessage(message)
        json == parsed.value
        subs == Subscriptions(routers[p]["_events"], GetMember(json, "event"))
    IN IF parsed.completion = "throw"
       THEN [calls |-> hook, json |-> Undefined, raised |-> TRUE]
       ELSE [calls |-> hook \o
                       (IF json.ok
                        THEN [i \in 1..Len(subs.list) |->
                                Call(p, "_events", subs.list[i],
                                     <<Seen(w, rec), GetMember(json, "data"), isBinary>>)]
                        ELSE <<>>),
             json |-> json, raised |-> json.ok /\ ~subs.iterable]

\* websocket.emit(name, ...): the listeners registered with websocket.on run
\* in registration order; a throwing listener stops the emit.
RECURSIVE EmitMessage(_, _, _, _, _)
EmitMessage(listeners, w, rec, message, isBinary) ==
    IF listeners = <<>> THEN [calls |-> <<>>, json |-> Undefined, raised |-> FALSE]
    ELSE LET first == MessageListener(listeners[1], w, rec, message, isBinary)
             rest == EmitMessage(Tail(listeners), w, rec, message, isBinary)
         IN IF first.raised \/ Len(listeners) = 1 THEN first
            ELSE [calls |-> first.calls \o rest.calls, json |-> rest.json,
                  raised |-> rest.raised]

RECURSIVE EmitClose(_, _, _, _, _)
EmitClose(listeners, w, rec, code, reason) ==
    IF listeners = <<>> THEN <<>>
    ELSE CloseListener(listeners[1], w, rec, code, reason)
         \o EmitClose(Tail(listeners), w, rec, code, reason)

RECURSIVE EmitError(_, _, _, _)
EmitError(listeners, w, rec, error) ==
    IF listeners = <<>> THEN <<>>
    ELSE ErrorListener(listeners[1], w, rec, error)
         \o EmitError(Tail(listeners), w, rec, error)

\* Inbound wire messages: well-formed envelopes and malformed messages.
Envelopes ==
    { buildEWSMessage(JStr("ping"), JObj(<<[k |-> "msg", v |-> JStr("hi")]>>)),
      buildEWSMessage(JStr("pong"), Undefined) }
Malformed ==
    { <<WordTok("hello")>>,
      <<P("{"), StrTok("event"), P(":"), StrTok("ping")>>,
      <<P("{"), StrTok("data"), P(":"), NumTok("1"), P("}")>> }
Messages == Envelopes \cup Malformed
\* The frames the transport delivers: text frames, and one binary frame.
Frames ==
    { [message |-> m, isBinary |-> FALSE] : m \in Messages }
    \cup { [message |-> <<WordTok("bytes")>>, isBinary |-> TRUE] }

\* The message is a JSON object whose event member is a string.
WellFormed(message) ==
    LET parsed == JSONParse(message) IN
    /\ parsed.completion = "return"
    /\ GetMember(parsed.value, "event") \notin {Undefined, Null}
    /\ GetMember(parsed.value, "event").t = "str"

WsMessage(w, message, isBinary) ==
    /\ Tick
    /\ w \in DOMAIN websockets
    /\ websockets[w].readyState # CLOSED
    /\ LET r == EmitMessage(websockets[w].on, w, websockets[w], message, isBinary) IN
        /\ calls' = r.calls
        /\ last' = [op |-> "message", ws |-> w, message |-> message,
                    isBinary |-> isBinary, json |-> r.json, raised |-> r.raised]
    /\ sent' = <<>>
    /\ UNCHANGED <<routers, servers, websockets, nconf>>

CloseCodes == {1000}
Reasons == {[bytes |-> "bye"]}

\* A variant of WsClose that drops the router's server when its last client
\* has left.
WsCloseTeardown(w, code, reason) ==
    LET p == servers[websockets[w].wss].connection[1] IN
    /\ Tick
    /\ w \in DOMAIN websockets
    /\ websockets[w].readyState # CLOSED
    /\ websockets' = [websockets EXCEPT ![w].readyState = CLOSED]
    /\ servers' = [servers EXCEPT ![websockets[w].wss].clients = @ \ {w}]
    /\ routers' = IF routers[p]["_socket"] = [wss |-> websockets[w].wss]
                     /\ servers'[websockets[w].wss].clients = {}
                  THEN [routers EXCEPT ![p]["_socket"] = Null]
                  ELSE routers
    /\ calls' = IF Truthy(routers[p]["_onCloseHandler"])
                THEN <<[of |-> p, slot |-> "_onCloseHandler",
                        fn |-> routers[p]["_onCloseHandler"],
                        args |-> <<Seen(w, websockets'[w]), code, reason.bytes>>]>>
                ELSE <<>>
    /\ sent' = <<>>
    /\ last' = [op |-> "close", ws |-> w, code |-> code, reason |-> reason,
                raised |-> FALSE]
    /\ nconf' = nconf

\* The transport closes the connection: it leaves the clients of its server.
WsClose(w, code, reason) ==
    /\ Tick
    /\ w \in DOMAIN websockets
    /\ websockets[w].readyState # CLOSED
    /\ websockets' = [websockets EXCEPT ![w].readyState = CLOSED]
    /\ servers' = [servers EXCEPT ![websockets[w].wss].clients = @ \ {w}]
    /\ calls' = EmitClose(websockets[w].on, w, websockets'[w], code, reason)
    /\ sent' = <<>>
    /\ last' = [op |-> "close", ws |-> w, code |-> code, reason |-> reason,
                raised |-> FALSE]
    /\ UNCHANGED <<routers, nconf>>

Errors == {"ECONNRESET"}

\* The transport reports an error; the connection starts closing.
WsError(w, error) ==
    /\ Tick
    /\ w \in DOMAIN websockets
    /\ websockets[w].readyState = OPEN
    /\ websockets' = [websockets EXCEPT ![w].readyState = CLOSING]
    /\ calls' = EmitError(websockets[w].on, w, websockets'[w], error)
    /\ sent' = <<>>
    /\ last' = [op |-> "error", ws |-> w, error |-> error, raised |-> FALSE]
    /\ UNCHANGED <<routers, servers, nconf>>

\* The closing handshake starts (websocket.close() or a close frame).
WsClosing(w) ==
    /\ Tick
    /\ w \in DOMAIN websockets
    /\ websockets[w].readyState = OPEN
    /\ websockets' = [websockets EXCEPT ![w].readyState = CLOSING]
    /\ calls' = <<>>
    /\ sent' = <<>>
    /\ last' = [op |-> "closing", ws |-> w, raised |-> FALSE]
    /\ UNCHANGED <<routers, servers, nconf>>

(***************************************************************************)
(* addEventfulWebSocketHandlers: the "upgrade" listener of the HTTP server. *)
(***************************************************************************)
UpgradePaths == Paths \cup {"/admin"}
QueryStrings == { <<"?", "password", "=", "password123">>, <<"?", "password", "=", "letmein">> }
Requests ==
    { [url |-> <<path>> \o qs] : path \in Paths, qs \in QueryStrings }
    \cup { [url |-> <<path>>] : path \in UpgradePaths \ Paths }

\* A variant of parse that maps every unknown path to a default route.
parseDefaultRoute(url) ==
    [pathname |-> IF url[1] \in Paths THEN url[1] ELSE "/chat",
     query |-> IF Len(url) = 5 THEN (url[3] :> url[5]) ELSE EmptyObject]

\* url.parse(url, true): the path and the query string as an object.
parse(url) ==
    [pathname |-> url[1],
     query |-> IF Len(url) = 5 THEN (url[3] :> url[5]) ELSE EmptyObject]

\* authenticator(req, query) for the authenticators the model draws from;
\* checkPassword is the authenticator of the README.
ApplyAuthenticator(authenticator, req, query) ==
    CASE authenticator = Fn("checkPassword") ->
            "password" \in DOMAIN query /\ query["password"] = "password123"
      [] OTHER -> FALSE

\* ewss.authenticator ? ewss.authenticator(req, parsedUrl.query) : true
Authenticate(p, ewss, req, query) ==
    LET authenticator == GetProperty(ewss, "authenticator") IN
    IF Truthy(authenticator)
    THEN [calls |-> <<Call(p, "authenticator", authenticator, <<req, query>>)>>,
          result |-> ApplyAuthenticator(authenticator, req, query)]
    ELSE [calls |-> <<>>, result |-> TRUE]

\* wss.handleUpgrade(req, socket, head, cb): the server completes the
\* handshake on the socket, tracks the new websocket in clients and calls
\* cb, which emits "connection" on the server.
NewWebSocket(socket, wss) ==
    [readyState |-> OPEN, socket |-> socket, remote |-> Undefined,
     request |-> Undefined, wss |-> wss, on |-> <<>>]

\* A variant of Dispatch without the return in front of handleUpgrade: an
\* accepted request falls through to socket.destroy().
DispatchFallThrough(known, authenticated) ==
    [handled |-> known /\ authenticated, destroyed |-> TRUE]

\* The way out of the upgrade handler: inside the route-table branch an
\* authenticated request returns with wss.handleUpgrade(...); every other
\* request reaches socket.destroy() at the end of the handler.
Dispatch(known, authenticated) ==
    IF known /\ authenticated
    THEN [handled |-> TRUE, destroyed |-> FALSE]
    ELSE [handled |-> FALSE, destroyed |-> TRUE]

Upgrade(req) ==
    LET parsedUrl == parse(req.url)
        p == parsedUrl.pathname
        w == Len(websockets) + 1
        socket == TransportSocket(w)
    IN
    /\ Tick
    /\ IF p \in DOMAIN routers
       THEN LET ewss == routers[p]
                auth == Authenticate(p, ewss, req, parsedUrl.query)
                initCalled == ~isInitialized(ewss)
                ewssAfter == IF initCalled THEN InitRouter(ewss, servers) ELSE ewss
                serversAfter == IF initCalled THEN InitServers(p, servers) ELSE servers
                wss == getWSS(ewssAfter).wss
                conn == EmitConnection(serversAfter[wss].connection, w,
                                       NewWebSocket(socket, wss), req)
            IN /\ initCalled => Len(servers) < MaxServers
               /\ auth.result => Len(websockets) < MaxConns
               /\ routers' = [routers EXCEPT ![p] = ewssAfter]
               /\ IF auth.result
                  THEN /\ servers' = [serversAfter EXCEPT ![wss].clients = @ \cup {w}]
                       /\ websockets' = Append(websockets, conn.rec)
                       /\ calls' = auth.calls \o conn.calls
                       /\ last' = [op |-> "upgrade", req |-> req, path |-> p,
                                   known |-> TRUE, authCalls |-> auth.calls,
                                   authenticated |-> TRUE, initCalled |-> initCalled,
                                   socketDestroyed |-> Dispatch(TRUE, TRUE).destroyed,
                                   handledBy |-> IF Dispatch(TRUE, TRUE).handled
                                                 THEN wss ELSE 0,
                                   ws |-> w, raised |-> FALSE]
                  ELSE /\ servers' = serversAfter
                       /\ websockets' = websockets
                       /\ calls' = auth.calls
                       /\ last' = [op |-> "upgrade", req |-> req, path |-> p,
                                   known |-> TRUE, authCalls |-> auth.calls,
                                   authenticated |-> FALSE, initCalled |-> initCalled,
                                   socketDestroyed |-> Dispatch(TRUE, FALSE).destroyed,
                                   handledBy |-> IF Dispatch(TRUE, FALSE).handled
                                                 THEN wss ELSE 0,
                                   ws |-> 0, raised |-> FALSE]
               /\ sent' = <<>>
               /\ nconf' = nconf
       ELSE /\ calls' = <<>>
            /\ sent' = <<>>
            /\ last' = [op |-> "upgrade", req |-> req, path |-> p, known |-> FALSE,
                        authCalls |-> <<>>, authenticated |-> FALSE,
                        initCalled |-> FALSE,
                        socketDestroyed |-> Dispatch(FALSE, FALSE).destroyed,
                        handledBy |-> 0, ws |-> 0, raised |-> FALSE]
            /\ UNCHANGED <<routers, servers, websockets, nconf>>

(***************************************************************************)
(* The state machine.                                                      *)
(***************************************************************************)
EmitEvents == {"pong"}
EmitData == {JObj(<<[k |-> "msg", v |-> JStr("hi")]>>)}

Init ==
    /\ routers = [p \in Paths |-> constructor]
    /\ servers = <<>>
    /\ websockets = <<>>
    /\ nconf = 0
    /\ steps = 0
    /\ calls = <<>>
    /\ sent = <<>>
    /\ last = [op |-> "new", raised |-> FALSE]

Next ==
    \/ \E p \in Paths, a \in Authenticators : useAuthenticator(p, a)
    \/ \E p \in Paths, h \in Handlers : onOpen(p, h)
    \/ \E p \in Paths, h \in Handlers : onClose(p, h)
    \/ \E p \in Paths, h \in Handlers : onError(p, h)
    \/ \E p \in Paths, h \in Handlers : onMessage(p, h)
    \/ \E p \in Paths, e \in EventNames, h \in Handlers : subscribe(p, e, h)
    \/ \E p \in Paths : init(p)
    \/ \E p \in Paths, w \in 1..MaxConns, e \in EmitEvents, d \in EmitData :
          emit(p, w, e, d)
    \/ \E p \in Paths, e \in EmitEvents, d \in EmitData, r \in Rules :
          broadcast(p, e, d, r)
    \/ \E req \in Requests : Upgrade(req)
    \/ \E w \in 1..MaxConns, f \in Frames : WsMessage(w, f.message, f.isBinary)
    \/ \E w \in 1..MaxConns, c \in CloseCodes, r \in Reasons : WsClose(w, c, r)
    \/ \E w \in 1..MaxConns, e \in Errors : WsError(w, e)
    \/ \E w \in 1..MaxConns : WsClosing(w)

Spec == Init /\ [][Next]_vars

(***************************************************************************)
(* The envelope codec on its own: Init draws an (event, data) pair, Encode *)
(* applies buildEWSMessage and Decode applies parseEWSMessage to the text. *)
(***************************************************************************)
CodecEvents == {"ping", "pong", "new-chat-message", "data", "event"}
CodecData ==
    { Null, JNum(0), JNum(1), JNum(3), JStr("hi"), JStr("event"), JArr(<<>>),
      JArr(<<JNum(1), JStr("hi")>>), JArr(<<JArr(<<Null>>)>>), JObj(<<>>),
      JObj(<<[k |-> "msg", v |-> JStr("hi")]>>),
      JObj(<<[k |-> "event", v |-> JStr("pong")], [k |-> "data", v |-> JArr(<<JNum(2)>>)]>>),
      JObj(<<[k |-> "a", v |-> JObj(<<[k |-> "b", v |-> Null]>>)]>>) }

CodecInit ==
    /\ routers = [p \in Paths |-> constructor]
    /\ servers = <<>>
    /\ websockets = <<>>
    /\ nconf = 0
    /\ steps = 0
    /\ calls = <<>>
    /\ sent = <<>>
    /\ last \in { [op |-> "pair", event |-> e, data |-> d, raised |-> FALSE] :
                    e \in CodecEvents, d \in CodecData }

Encode ==
    /\ last.op = "pair"
    /\ sent' = <<[ws |-> 0, message |-> buildEWSMessage(JStr(last.event), last.data)]>>
    /\ last' = [last EXCEPT !.op = "encoded"]
    /\ UNCHANGED <<routers, servers, websockets, nconf, steps, calls>>

Decode ==
    /\ last.op = "encoded"
    /\ LET parsed == parseEWSMessage(sent[1].message) IN
       last' = [op |-> "decoded", event |-> last.event, data |-> last.data,
                raised |-> parsed.completion = "throw",
                json |-> IF parsed.completion = "throw" THEN Undefined ELSE parsed.value]
    /\ UNCHANGED <<routers, servers, websockets, nconf, steps, calls, sent>>

CodecNext == Encode \/ Decode

CodecSpec == CodecInit /\ [][CodecNext]_vars

(***************************************************************************)
(* Properties.                                                             *)
(***************************************************************************)
\* The router whose server accepted websocket w.
Owner(w) == servers[websockets[w].wss].connection[1]
HookSlots == {"_onOpenHandler", "_onCloseHandler", "_onErrorHandler", "_onMessageHandler"}
CallsOf(slot) == SelectSeq(calls, LAMBDA c : c.slot = slot)
SendsTo(w) == SelectSeq(sent, LAMBDA m : m.ws = w)
\* The authenticator installed with useAuthenticator rejects the request.
Rejects(p, req) ==
    /\ Truthy(routers[p]["_authenticator"])
    /\ ~ApplyAuthenticator(routers[p]["_authenticator"], req,
                           IF Len(req.url) = 5 THEN (req.url[3] :> req.url[5]) ELSE EmptyObject)
Accepts(p, req) ==
    \/ ~Truthy(routers[p]["_authenticator"])
    \/ ApplyAuthenticator(routers[p]["_authenticator"], req,
                          IF Len(req.url) = 5 THEN (req.url[3] :> req.url[5]) ELSE EmptyObject)

\* C1: an upgrade request for a known path whose installed authenticator
\* returns false has its transport socket destroyed, is not handed to the
\* router's server, and invokes no lifecycle hook and no subscriber.
C1_RejectedUpgradeDestroyed ==
    (last.op = "upgrade" /\ last.req.url[1] \in Paths /\ Rejects(last.req.url[1], last.req))
        => /\ last.socketDestroyed
           /\ last.handledBy = 0
           /\ \A i \in DOMAIN calls : calls[i].slot \notin HookSlots \cup {"_events"}


\* The value of a parsed well-formed envelope.
EnvelopeOf(message) == JSONParse(message).value

\* C2: when a router's list for an event name is <<h1, h2>>, a well-formed
\* envelope with that name received on one of its connections invokes h1
\* and then h2, each exactly once, with (connection, data, isBinary).
C2_SubscribersInOrder ==
    (last.op = "message" /\ WellFormed(last.message))
        => LET p == Owner(last.ws)
               name == GetMember(EnvelopeOf(last.message), "event").s
               events == routers[p]["_events"]
           IN (name \in DOMAIN events /\ Len(events[name]) = 2)
                => CallsOf("_events") =
                     [i \in 1..2 |->
                        Call(p, "_events", events[name][i],
                             <<Seen(last.ws, websockets[last.ws]),
                               GetMember(EnvelopeOf(last.message), "data"),
                               last.isBinary>>)]

\* C3: a malformed inbound message (not valid JSON, or no event field) makes
\* decode report failure, invokes no subscriber, raises no error, and invokes
\* the onMessage hook, if set, exactly once with (connection, raw, isBinary).
C3_MalformedSkipsDispatch ==
    (last.op = "message" /\ ~WellFormed(last.message))
        => /\ ~last.raised
           /\ last.json # Undefined
           /\ last.json.ok = FALSE
           /\ CallsOf("_events") = <<>>
           /\ calls = Invoke(Owner(last.ws), "_onMessageHandler",
                             <<Seen(last.ws, websockets[last.ws]), last.message,
                               last.isBinary>>)

\* C3 witness: a malformed message arrived at a router that has an onMessage
\* hook and a subscriber, and the hook was the only callback invoked.
C3_Witness ==
    /\ last.op = "message"
    /\ ~WellFormed(last.message)
    /\ Truthy(routers[Owner(last.ws)]["_onMessageHandler"])
    /\ DOMAIN routers[Owner(last.ws)]["_events"] # {}
    /\ Len(calls) = 1

\* C4: decoding the encoding of (event, data) reports success and yields an
\* envelope with the same event and the same data.
C4_RoundTrip ==
    last.op = "decoded"
        => /\ ~last.raised
           /\ last.json # Undefined
           /\ last.json.ok
           /\ GetMember(last.json.body, "event") = JStr(last.event)
           /\ GetMember(last.json.body, "data") = last.data

\* The servers that init created for router p.
ServersOf(p) == {n \in DOMAIN servers : servers[n].connection = <<p>>}

\* C5: init is idempotent: after any call of init on a router exactly one
\* server has been created for it, with one connection listener.
C5_InitIdempotent ==
    last.op = "init" => Cardinality(ServersOf(last.path)) = 1

\* C6: an upgrade request for a path that is not in the route table has its
\* socket destroyed; no router is initialized, no authenticator is
\* consulted and no accept callback runs.
C6_UnknownPathRejected ==
    [][(last'.op = "upgrade" /\ last'.req.url[1] \notin Paths)
        => /\ last'.socketDestroyed
           /\ last'.handledBy = 0
           /\ ~last'.initCalled
           /\ last'.authCalls = <<>>
           /\ calls' = <<>>
           /\ routers' = routers
           /\ servers' = servers
           /\ websockets' = websockets]_vars

\* C6 witness: an upgrade for an unknown path was handled while a router
\* with an authenticator installed was in the table.
C6_Witness ==
    /\ last.op = "upgrade"
    /\ last.req.url[1] \notin Paths
    /\ last.socketDestroyed
    /\ \E p \in Paths : Truthy(routers[p]["_authenticator"])

\* C7: an upgrade request for a known path whose authenticator is absent or
\* returns true is handed to the router's server, its socket is not
\* destroyed, and the onOpen hook, if set, is invoked exactly once with a
\* connection that already carries address, port, fullAddress = address +
\* ":" + port and the request.
C7_AcceptedUpgradeOpens ==
    (last.op = "upgrade" /\ last.req.url[1] \in Paths
       /\ Accepts(last.req.url[1], last.req))
        => LET p == last.req.url[1]
               w == last.ws
           IN /\ ~last.socketDestroyed
              /\ isInitialized(routers[p])
              /\ last.handledBy = getWSS(routers[p]).wss
              /\ w = Len(websockets)
              /\ w \in servers[last.handledBy].clients
              /\ LET sock == websockets[w].socket
                     metadata ==
                        [address |-> sock.remoteAddress, port |-> sock.remotePort,
                         fullAddress |-> <<sock.remoteAddress, ":",
                                           PortStrings[sock.remotePort]>>]
                 IN /\ websockets[w].remote = metadata
                    /\ websockets[w].request = last.req
                    /\ \A i \in DOMAIN calls : calls[i].of = p
                    /\ CallsOf("_onOpenHandler") =
                         IF Truthy(routers[p]["_onOpenHandler"])
                         THEN <<[of |-> p, slot |-> "_onOpenHandler",
                                 fn |-> routers[p]["_onOpenHandler"],
                                 args |-> <<[id |-> w, remote |-> metadata,
                                             request |-> last.req]>>]>>
                         ELSE <<>>

\* C7 witness: an upgrade was accepted by a router whose authenticator
\* returned true and whose onOpen hook is set.
C7_Witness ==
    /\ last.op = "upgrade"
    /\ last.req.url[1] \in Paths
    /\ Truthy(routers[last.req.url[1]]["_authenticator"])
    /\ Accepts(last.req.url[1], last.req)
    /\ Truthy(routers[last.req.url[1]]["_onOpenHandler"])
    /\ Len(CallsOf("_onOpenHandler")) = 1

\* A send carries the envelope {event, data}.
IsEnvelope(message, event, data) ==
    /\ JSONParse(message).completion = "return"
    /\ GetMember(EnvelopeOf(message), "event") = JStr(event)
    /\ GetMember(EnvelopeOf(message), "data") = data

\* C8: broadcast on an initialized router sends exactly one envelope
\* {event, data} to every tracked open connection the rule admits (or when
\* there is no rule), and nothing to a tracked connection the rule excludes
\* or to a connection that is not open.
C8_BroadcastSelective ==
    (last.op = "broadcast" /\ isInitialized(routers[last.path]))
        => /\ ~last.raised
           /\ \A w \in DOMAIN websockets :
                LET tracked == w \in servers[getWSS(routers[last.path]).wss].clients
                    admitted == last.rule = Null \/ ApplyRule(last.rule, w)
                IN /\ (tracked /\ websockets[w].readyState = OPEN /\ admitted)
                        => /\ Len(SendsTo(w)) = 1
                           /\ IsEnvelope(SendsTo(w)[1].message, last.event, last.data)
                   /\ (tracked /\ ~admitted) => SendsTo(w) = <<>>
                   /\ websockets[w].readyState # OPEN => SendsTo(w) = <<>>

\* C8 witness: a broadcast whose rule excludes the first of two tracked open
\* connections sent one message, to the second.
C8_Witness ==
    /\ last.op = "broadcast"
    /\ last.rule = Fn("notFirst")
    /\ isInitialized(routers[last.path])
    /\ {1, 2} \subseteq servers[getWSS(routers[last.path]).wss].clients
    /\ websockets[1].readyState = OPEN
    /\ websockets[2].readyState = OPEN
    /\ Len(sent) = 1
    /\ sent[1].ws = 2

\* C9: emit on a connection that is not open sends nothing, raises nothing
\* and leaves the routers, servers and connections unchanged.
C9_EmitNotOpenNoOp ==
    [][(last'.op = "emit" /\ websockets[last'.ws].readyState # OPEN)
        => /\ sent' = <<>>
           /\ ~last'.raised
           /\ calls' = <<>>
           /\ routers' = routers
           /\ servers' = servers
           /\ websockets' = websockets]_vars

\* C9 witness: emit was called on a closing or closed connection.
C9_Witness ==
    /\ last.op = "emit"
    /\ websockets[last.ws].readyState \in {CLOSING, CLOSED}
    /\ sent = <<>>

\* C10: for an upgrade request to a known path the dispatcher calls the
\* installed authenticator exactly once with (request, query) and uses its
\* result; the request is implicitly authenticated only when no
\* authenticator is installed.
C10_AuthenticatorConsulted ==
    (last.op = "upgrade" /\ last.req.url[1] \in Paths)
        => LET p == last.req.url[1]
               authenticator == routers[p]["_authenticator"]
               query == IF Len(last.req.url) = 5
                        THEN (last.req.url[3] :> last.req.url[5]) ELSE EmptyObject
           IN IF Truthy(authenticator)
              THEN /\ last.authCalls =
                        <<Call(p, "authenticator", authenticator, <<last.req, query>>)>>
                   /\ last.authenticated = ApplyAuthenticator(authenticator, last.req, query)
              ELSE /\ last.authCalls = <<>>
                   /\ last.authenticated


\* The slot each setter assigns.
SlotOf ==
    ("onOpen" :> "_onOpenHandler") @@ ("onClose" :> "_onCloseHandler")
    @@ ("onError" :> "_onErrorHandler") @@ ("onMessage" :> "_onMessageHandler")
\* The hook a lifecycle event invokes.
HookOf ==
    ("upgrade" :> "_onOpenHandler") @@ ("close" :> "_onCloseHandler")
    @@ ("error" :> "_onErrorHandler") @@ ("message" :> "_onMessageHandler")

\* C11: each lifecycle hook is a single slot.  A setter stores its handler in
\* its own slot and changes nothing else of any router; no other operation
\* changes a hook; and a lifecycle event invokes the handler its slot holds,
\* exactly once, and no other handler for that hook.
C11_HooksSingleSlot ==
    [][/\ last'.op \in DOMAIN SlotOf
          => /\ routers'[last'.path][SlotOf[last'.op]] = last'.fn
             /\ routers' = [routers EXCEPT ![last'.path][SlotOf[last'.op]] = last'.fn]
       /\ last'.op \notin DOMAIN SlotOf
          => \A p \in Paths, slot \in HookSlots : routers'[p][slot] = routers[p][slot]
       /\ (last'.op \in DOMAIN HookOf /\ last'.ws # 0)
          => LET p == servers'[websockets'[last'.ws].wss].connection[1]
                 slot == HookOf[last'.op]
                 invoked == SelectSeq(calls', LAMBDA c : c.slot = slot)
             IN IF Truthy(routers'[p][slot])
                THEN /\ Len(invoked) = 1
                     /\ invoked[1].fn = routers'[p][slot]
                     /\ invoked[1].of = p
                ELSE invoked = <<>>]_vars

\* C11 witness: the open hook of a router was set twice and nothing else was
\* configured; an accepted connection invoked the handler the slot holds.
C11_Witness ==
    /\ last.op = "upgrade"
    /\ last.ws # 0
    /\ nconf = 2
    /\ \E p \in Paths :
         /\ last.path = p
         /\ routers[p]["_onOpenHandler"] = Fn("h2")
         /\ \A slot \in HookSlots \ {"_onOpenHandler"} : routers[p][slot] = Null
         /\ routers[p]["_authenticator"] = Null
         /\ routers[p]["_events"] = EmptyObject
         /\ \A q \in Paths \ {p} : routers[q] = constructor
    /\ Len(calls) = 1
    /\ calls[1].fn = Fn("h2")


\* C12 (as claimed): on every accepted connection the onOpen hook, if set, is
\* invoked with the connection and the originating upgrade request.
C12_OpenWithRequest ==
    (last.op = "upgrade" /\ last.ws # 0 /\ Truthy(routers[last.path]["_onOpenHandler"]))
        => /\ Len(CallsOf("_onOpenHandler")) = 1
           /\ CallsOf("_onOpenHandler")[1].args
                = <<Seen(last.ws, websockets[last.ws]), last.req>>

\* C12 (amended): on every accepted connection the onOpen hook, if set, is
\* invoked with the connection as its only argument; the originating upgrade
\* request is the request property of that connection.
C12_OpenWithConnection ==
    (last.op = "upgrade" /\ last.ws # 0 /\ Truthy(routers[last.path]["_onOpenHandler"]))
        => /\ Len(CallsOf("_onOpenHandler")) = 1
           /\ Len(CallsOf("_onOpenHandler")[1].args) = 1
           /\ CallsOf("_onOpenHandler")[1].args[1].id = last.ws
           /\ CallsOf("_onOpenHandler")[1].args[1].request = last.req

\* C12 witness: a connection was accepted by a router whose onOpen hook is
\* set, and the hook received one argument.
C12_Witness ==
    /\ last.op = "upgrade"
    /\ last.ws # 0
    /\ Truthy(routers[last.path]["_onOpenHandler"])
    /\ calls # <<>>
    /\ Len(calls[Len(calls)].args) = 1


\* C13: when an accepted connection closes, the onClose hook of its router,
\* if set, is invoked exactly once with (connection, code, reason text); when
\* it errors, the onError hook, if set, is invoked with (connection, error);
\* neither event invokes any other hook or any subscriber.
C13_CloseAndErrorHooks ==
    /\ last.op = "close"
        => LET p == Owner(last.ws)
               hook == routers[p]["_onCloseHandler"]
           IN calls = IF Truthy(hook)
                      THEN <<[of |-> p, slot |-> "_onCloseHandler", fn |-> hook,
                              args |-> <<Seen(last.ws, websockets[last.ws]), last.code,
                                         last.reason.bytes>>]>>
                      ELSE <<>>
    /\ last.op = "error"
        => LET p == Owner(last.ws)
               hook == routers[p]["_onErrorHandler"]
           IN calls = IF Truthy(hook)
                      THEN <<[of |-> p, slot |-> "_onErrorHandler", fn |-> hook,
                              args |-> <<Seen(last.ws, websockets[last.ws]), last.error>>]>>
                      ELSE <<>>

\* C13 witness: a connection of a router whose onClose hook is set closed,
\* and the hook was invoked.
C13_Witness ==
    /\ last.op = "close"
    /\ websockets[last.ws].readyState = CLOSED
    /\ Truthy(routers[Owner(last.ws)]["_onCloseHandler"])
    /\ Len(calls) = 1
    /\ calls[1].slot = "_onCloseHandler"


\* C14: for every inbound message the onMessage hook, if set, is invoked
\* first, before any subscriber of that message; the callbacks of one
\* delivery are those of that message on that connection only, so the
\* dispatches of two messages never interleave.
C14_HookBeforeSubscribers ==
    last.op = "message"
        => LET p == Owner(last.ws)
               hook == routers[p]["_onMessageHandler"]
           IN /\ Truthy(hook)
                 => /\ calls # <<>>
                    /\ calls[1] = [of |-> p, slot |-> "_onMessageHandler", fn |-> hook,
                                   args |-> <<Seen(last.ws, websockets[last.ws]),
                                              last.message, last.isBinary>>]
              /\ \A i \in DOMAIN calls :
                   /\ calls[i].slot \in {"_onMessageHandler", "_events"}
                   /\ calls[i].slot = "_onMessageHandler" => (i = 1 /\ Truthy(hook))
                   /\ calls[i].of = p
                   /\ calls[i].args[1].id = last.ws
                   /\ calls[i].args[3] = last.isBinary

\* C14 witness: a well-formed envelope arrived at a router that has an
\* onMessage hook and a subscriber for the envelope's event, and the hook
\* was the first callback.
C14_Witness ==
    /\ last.op = "message"
    /\ WellFormed(last.message)
    /\ Truthy(routers[Owner(last.ws)]["_onMessageHandler"])
    /\ GetMember(EnvelopeOf(last.message), "event").s
         \in DOMAIN routers[Owner(last.ws)]["_events"]
    /\ calls # <<>>
    /\ calls[1].slot = "_onMessageHandler"


\* C15: after an upgrade attempt to a path of the route table the matched
\* router is initialized, whatever the authentication outcome; and a router
\* for which a server was ever created is initialized.
C15_KnownPathInitialized ==
    /\ (last.op = "upgrade" /\ last.req.url[1] \in Paths)
          => isInitialized(routers[last.req.url[1]])
    /\ \A p \in Paths : ServersOf(p) # {} => isInitialized(routers[p])

\* C15 witness: an upgrade attempt that the installed authenticator rejects
\* initialized its router.
C15_Witness ==
    /\ last.op = "upgrade"
    /\ last.req.url[1] \in Paths
    /\ Rejects(last.req.url[1], last.req)
    /\ last.initCalled
    /\ isInitialized(routers[last.req.url[1]])


\* C16: the dispatcher calls init only for a router that has no server yet,
\* so an upgrade that called init leaves the router with the one server it
\* just created; and while a router has had one server only, every
\* connection it accepted that has not closed is tracked by that server.
C16_PrimitiveCreatedOnce ==
    (last.op = "upgrade" /\ last.req.url[1] \in Paths)
        => LET p == last.req.url[1]
               wss == routers[p]["_socket"].wss
           IN /\ last.initCalled => ServersOf(p) = {wss}
              /\ wss \in ServersOf(p)
              /\ Cardinality(ServersOf(p)) = 1
                   => \A w \in DOMAIN websockets :
                        (websockets[w].on = <<p>> /\ websockets[w].readyState # CLOSED)
                            => /\ websockets[w].wss = wss
                               /\ w \in servers[wss].clients

\* C16 witness: a second upgrade to a router found it initialized, did not
\* call init, and both connections are tracked by the router's one server.
C16_Witness ==
    /\ last.op = "upgrade"
    /\ last.ws = 2
    /\ ~last.initCalled
    /\ Cardinality(ServersOf(last.path)) = 1
    /\ servers[routers[last.path]["_socket"].wss].clients = {1, 2}


\* C17: an upgrade attempt ends either with the transport socket destroyed
\* or with the request handed to one server, never both and never neither;
\* the handed-over request becomes one new connection tracked by exactly
\* that server, which is the server of the router of the request's path,
\* and a destroyed one adds no connection.
C17_OneOutcome ==
    last.op = "upgrade"
        => /\ last.socketDestroyed # (last.handledBy # 0)
           /\ last.handledBy # 0
                => /\ last.known
                   /\ last.handledBy = routers[last.path]["_socket"].wss
                   /\ last.ws = Len(websockets)
                   /\ { s \in 1..Len(servers) : last.ws \in servers[s].clients }
                         = {last.handledBy}
           /\ last.socketDestroyed
                => /\ last.ws = 0
                   /\ \A s \in 1..Len(servers) :
                        servers[s].clients \subseteq 1..Len(websockets)

\* C17 witness: an upgrade attempt ended with the socket destroyed after an
\* earlier one had been handed to a server.
C17_Witness ==
    /\ last.op = "upgrade"
    /\ last.socketDestroyed
    /\ last.handledBy = 0
    /\ Len(websockets) >= 1
    /\ \E s \in 1..Len(servers) : servers[s].clients # {}


\* The subscription table events with handler appended at the end of the
\* list of event, the list being created if absent.
Appended(events, event, handler) ==
    [k \in DOMAIN events \cup {event} |->
        IF k = event
        THEN Append(IF event \in DOMAIN events THEN events[event] ELSE <<>>, handler)
        ELSE events[k]]

\* C18: subscribe(eventName, handler) on a router appends one handler at the
\* end of eventName's list of that router, creating the list if absent, and
\* leaves every other list and every other router's table unchanged; no
\* other operation changes any subscription table.
C18_OnlySubscribeAppends ==
    [][ /\ last'.op = "subscribe"
            => /\ \E h \in Handlers :
                    routers'[last'.path]["_events"]
                        = Appended(routers[last'.path]["_events"], last'.event, h)
               /\ \A q \in Paths \ {last'.path} :
                    routers'[q]["_events"] = routers[q]["_events"]
        /\ last'.op # "subscribe"
            => \A q \in Paths : routers'[q]["_events"] = routers[q]["_events"]
      ]_vars


\* The step leaves every router but p, and every server created for a
\* router other than p, as they were, creates servers for p only, and
\* invokes callbacks of p only.
TouchesOnly(p) ==
    /\ \A q \in Paths \ {p} : routers'[q] = routers[q]
    /\ \A s \in 1..Len(servers) :
          /\ servers'[s].connection = servers[s].connection
          /\ servers[s].connection # <<p>> => servers'[s] = servers[s]
    /\ \A s \in (Len(servers) + 1)..Len(servers') : servers'[s].connection = <<p>>
    /\ \A i \in 1..Len(calls') : calls'[i].of = p

\* C19: an upgrade attempt for path P and a message, close or error on a
\* connection accepted by P's router change no other router, create no
\* server for another router and invoke no authenticator, hook or
\* subscriber of another router; a broadcast on a router sends only to
\* connections accepted by that router.
C19_RoutersIsolated ==
    [][ /\ last'.op = "upgrade" => TouchesOnly(last'.path)
        /\ last'.op \in {"message", "close", "error"}
             => /\ TouchesOnly(Owner(last'.ws))
                /\ routers' = routers
        /\ last'.op = "broadcast"
             => \A i \in 1..Len(sent') : Owner(sent'[i].ws) = last'.path
      ]_vars

\* C19 witness: a broadcast on one router, with an open connection on each
\* of the two routers, sent one message.
C19_Witness ==
    /\ last.op = "broadcast"
    /\ Len(websockets) = 2
    /\ Owner(1) # Owner(2)
    /\ websockets[1].readyState = OPEN
    /\ websockets[2].readyState = OPEN
    /\ Len(sent) = 1
    /\ Owner(sent[1].ws) = last.path


\* C20: a broadcast on a router for which no server was ever created (no
\* init call and no upgrade attempt for its path) raises an error and sends
\* nothing; a broadcast on any other router does not raise.
C20_BroadcastNeedsInit ==
    last.op = "broadcast"
        => /\ last.raised <=> ServersOf(last.path) = {}
           /\ last.raised <=> ~isInitialized(routers[last.path])
           /\ last.raised => sent = <<>>

\* C20 witness: a broadcast raised on a router never initialized while the
\* other router had a server and an open connection.
C20_Witness ==
    /\ last.op = "broadcast"
    /\ last.raised
    /\ ServersOf(last.path) = {}
    /\ sent = <<>>
    /\ \E w \in DOMAIN websockets :
          websockets[w].readyState = OPEN /\ Owner(w) # last.path

====
